---- MODULE Spec2Model ----
(***************************************************************************)
(* nice: reformat JSON-lined logs into tab separated text.                 *)
(* The model follows src/main.go: the coordinator (main), one pump per     *)
(* input file (pipeFile), the stdin pump (pipeStdin) and the formatter     *)
(* (print).  Byte strings are sequences of one-character strings.          *)
(***************************************************************************)
EXTENDS Integers, Sequences, FiniteSets

\* ------------------------------------------------------------------ bounds
MaxFiles == 2      \* most input files given with -files
MaxLines == 3      \* most lines the sources deliver, all together
MaxErrs == 1       \* most non-EOF read errors stdin reports
MaxFields == 3     \* longest -f field list drawn for the formatter
MaxColors == 2     \* longest -colors list drawn for the formatter
MaxTokens == 2     \* most tokens of a -colors text drawn for getColorFormat

\* ------------------------------------------------------------- characters
TAB == "\t"
NL == "\n"
QUOTE == "\""
SpaceChars == {" ", "\t", "\n", "\r", "\f"}

\* ------------------------------------------- JSON documents and gjson.Get
\* A line is seen through gjson as a map from dot-path to the JSON value
\* found there.  kind "Absent" is a path the document does not have (also
\* every path of a line gjson cannot read).
Paths == {"time", "level", "msg"}

Word(p) ==
  CASE p = "time" -> <<"T", "1">>
    [] p = "level" -> <<"i", "n", "f", "o">>
    [] OTHER -> <<"h", "i">>

\* (true stands for both booleans: gjson gives them the same Str and Raw shape)
Kinds == {"Absent", "Empty", "Blank", "String", "Number", "True", "JSON"}

JsonValue(p, k) ==
  CASE k = "Absent" -> [kind |-> "Absent", text |-> <<>>]
    [] k = "Empty" -> [kind |-> "String", text |-> <<>>]
    [] k = "Blank" -> [kind |-> "String", text |-> <<" ", TAB>>]
    [] k = "String" -> [kind |-> "String", text |-> Word(p)]
    [] k = "Number" -> [kind |-> "Number", text |-> <<"4", "2">>]
    [] k = "True" -> [kind |-> "True", text |-> <<"t", "r", "u", "e">>]
    [] OTHER -> [kind |-> "JSON", text |-> <<"{", "}">>]

Doc(ks) == [p \in Paths |-> JsonValue(p, ks[p])]

AllLines == {Doc(ks) : ks \in [Paths -> Kinds]}

\* {"time":"T1","level":"info","msg":"hi"}
LineFull == Doc([p \in Paths |-> "String"])
\* {}
LineNone == Doc([p \in Paths |-> "Absent"])
\* {"time":"T1","msg":""}
LineTimeOnly == Doc([p \in Paths |-> IF p = "time" THEN "String" ELSE IF p = "msg" THEN "Empty" ELSE "Absent"])

\* the lines the sources of the concurrent system deliver
SampleLines == {LineFull, LineNone}

\* gjson.Result of Get(path): Type, Str (set for strings only) and Raw
Get(line, path) ==
  LET v == line[path] IN
  [Type |-> IF v.kind = "Absent" THEN "Null" ELSE v.kind,
   Str |-> IF v.kind = "String" THEN v.text ELSE <<>>,
   Raw |-> IF v.kind = "String" THEN <<QUOTE>> \o v.text \o <<QUOTE>> ELSE v.text]

\* --------------------------------------------------------------- strings
RECURSIVE TrimLeft(_)
TrimLeft(s) == IF s # <<>> /\ Head(s) \in SpaceChars THEN TrimLeft(Tail(s)) ELSE s

RECURSIVE TrimRight(_)
TrimRight(s) ==
  IF s # <<>> /\ s[Len(s)] \in SpaceChars THEN TrimRight(SubSeq(s, 1, Len(s) - 1)) ELSE s

TrimSpace(s) == TrimRight(TrimLeft(s))

\* ----------------------------------------------------------------- colors
ColorNames == {"red", "green"}

ColorCode(c) ==
  CASE c = "black" -> "ESC[30m"
    [] c = "red" -> "ESC[31m"
    [] c = "green" -> "ESC[32m"
    [] c = "yellow" -> "ESC[33m"
    [] c = "blue" -> "ESC[34m"
    [] c = "magenta" -> "ESC[35m"
    [] c = "cyan" -> "ESC[36m"
    [] c = "white" -> "ESC[37m"
    [] OTHER -> "ESC[0m"

\* color.Sprintf: the text between the directive's escape and the reset
Sprintf(c, s) == <<ColorCode(c)>> \o s \o <<"ESC[0m">>

\* --------------------------------------------------------- getColorFormat
COMMA == ","
LowerAlpha == <<"a", "b", "c", "d", "e", "g", "h", "i", "k", "l", "m", "n", "o", "p", "r", "t", "u", "w", "y">>
UpperAlpha == <<"A", "B", "C", "D", "E", "G", "H", "I", "K", "L", "M", "N", "O", "P", "R", "T", "U", "W", "Y">>

\* the characters of a color name
Chars(name) ==
  CASE name = "black" -> <<"b", "l", "a", "c", "k">>
    [] name = "red" -> <<"r", "e", "d">>
    [] name = "green" -> <<"g", "r", "e", "e", "n">>
    [] name = "yellow" -> <<"y", "e", "l", "l", "o", "w">>
    [] name = "blue" -> <<"b", "l", "u", "e">>
    [] name = "magenta" -> <<"m", "a", "g", "e", "n", "t", "a">>
    [] name = "cyan" -> <<"c", "y", "a", "n">>
    [] name = "white" -> <<"w", "h", "i", "t", "e">>
    [] name = "pink" -> <<"p", "i", "n", "k">>
    [] OTHER -> <<>>

\* strings.ToLower
ToLowerChar(c) ==
  IF \E k \in 1..Len(UpperAlpha) : UpperAlpha[k] = c
  THEN LowerAlpha[CHOOSE k \in 1..Len(UpperAlpha) : UpperAlpha[k] = c]
  ELSE c

ToLower(s) == [k \in 1..Len(s) |-> ToLowerChar(s[k])]

\* strings.Split(s, ","): the pieces between the commas, at least one
RECURSIVE SplitFrom(_, _, _)
SplitFrom(s, k, piece) ==
  IF k > Len(s) THEN <<piece>>
  ELSE IF s[k] = COMMA THEN <<piece>> \o SplitFrom(s, k + 1, <<>>)
  ELSE SplitFrom(s, k + 1, Append(piece, s[k]))

Split(s) == SplitFrom(s, 1, <<>>)

\* the switch: the directive of a trimmed, lower-cased token
Directive(tok) ==
  CASE tok = Chars("black") -> "black"
    [] tok = Chars("red") -> "red"
    [] tok = Chars("green") -> "green"
    [] tok = Chars("yellow") -> "yellow"
    [] tok = Chars("blue") -> "blue"
    [] tok = Chars("magenta") -> "magenta"
    [] tok = Chars("cyan") -> "cyan"
    [] tok = Chars("white") -> "white"
    [] OTHER -> "reset"

\* a switch on the trimmed token as it was typed
ColorOfAsTyped(c) == Directive(TrimSpace(c))

\* one turn of the loop over the tokens
ColorOf(c) == Directive(ToLower(TrimSpace(c)))

getColorFormat(inStr) ==
  IF Len(inStr) = 0 \/ TrimSpace(inStr) = <<>> THEN <<>>
  ELSE LET colors == Split(inStr) IN [k \in 1..Len(colors) |-> ColorOf(colors[k])]

\* a -colors text that names the directives of a list
RECURSIVE ColorsText(_)
ColorsText(colors) ==
  IF colors = <<>> THEN <<>>
  ELSE IF Len(colors) = 1 THEN Chars(colors[1])
  ELSE Chars(colors[1]) \o <<COMMA>> \o ColorsText(Tail(colors))

\* ---------------------------------------------------------------- print
\* the text print takes for a field: Raw for a container, Str otherwise
Val(res) == IF res.Type = "JSON" THEN res.Raw ELSE res.Str

\* a test for the empty string alone, without TrimSpace
SkippedIfEmpty(val) == val = <<>>

\* strings.TrimSpace(val) == "": the field is skipped
Skipped(val) == TrimSpace(val) = <<>>

\* a segment colored by the directive after the field's own
SegmentShifted(idx, val, colors) ==
  IF idx + 1 <= Len(colors) THEN Sprintf(colors[idx + 1], val \o <<TAB>>) ELSE val \o <<TAB>>

\* what one emitted field adds to the buffer (idx counts from 1)
Segment(idx, val, colors) ==
  IF idx <= Len(colors) THEN Sprintf(colors[idx], val \o <<TAB>>) ELSE val \o <<TAB>>

\* the loop over outFields, from field idx on
RECURSIVE AppendFields(_, _, _, _, _)
AppendFields(line, fields, colors, b, idx) ==
  IF idx > Len(fields) THEN b
  ELSE LET val == Val(Get(line, fields[idx])) IN
       AppendFields(line, fields, colors,
                    IF Skipped(val) THEN b ELSE b \o Segment(idx, val, colors),
                    idx + 1)

\* a print that writes whatever the buffer holds
BuffEmptyNever(b) == FALSE

\* buff.Len() == 0: nothing to write
BuffEmpty(b) == Len(b) = 0

\* a print that hands the line over without its newline
printUnended(line, fields, colors, b) ==
  LET b1 == AppendFields(line, fields, colors, b, 1) IN
  [buff |-> b1, write |-> ~BuffEmpty(b1)]

\* print: the buffer it leaves and whether it writes the buffer to out
print(line, fields, colors, b) ==
  LET b1 == AppendFields(line, fields, colors, b, 1) IN
  IF BuffEmpty(b1) THEN [buff |-> b1, write |-> FALSE]
  ELSE [buff |-> b1 \o <<NL>>, write |-> TRUE]

\* a loop that formats into the buffer as the last line left it
ResetKeeps(b) == b

\* buff.Reset()
Reset(b) == <<>>

\* a sink that puts each write before what it holds
SinkWriteInFront(content, closed, bytes) == IF closed THEN content ELSE <<bytes>> \o content

\* a sink that takes a write after Close
SinkWriteAlways(content, closed, bytes) == Append(content, bytes)

\* the content of the sink after one Write call: a closed sink refuses it
SinkWrite(content, closed, bytes) == IF closed THEN content ELSE Append(content, bytes)

\* ---------------------------------------------------------------- state
VARIABLES
  outFields,     \* -f, split at commas
  fFieldColors,  \* -colors, as typed
  outColors,     \* -colors, as directives
  nFiles,        \* number of paths in -files
  isPiped,       \* stdin is not a character device
  mainPc,        \* where main is
  nextFile,      \* index of the next file main launches
  wg,            \* the WaitGroup counter
  ctxDone,       \* ctx.Done() is closed
  cancels,       \* calls of ctxCancel so far
  sinkAtCancel,  \* history: the number of sink entries when ctxCancel was called
  sigPending,    \* a signal sits in stopChan
  sink,          \* the writes out has accepted, in order
  sinkSrc,       \* for each accepted write: <<pump, number of its line>>
  sinkClosed,    \* outputWriter is closed
  failedWrites,  \* pumps that had a write refused
  filePc,        \* where each file pump is
  fileEnd,       \* how each file pump ended
  fileHandle,    \* each pump's file handle
  closes,        \* f.Close() calls of each pump
  dones,         \* wg.Done() calls of each pump
  stdinPc,       \* where the stdin pump is
  stdinErrs,     \* non-EOF errors ReadLine returned
  readLog,       \* the lines each pump has read (0: stdin, i: file i)
  buff           \* each pump's buffer

cfgVars == <<outFields, fFieldColors, outColors, nFiles, isPiped>>
mainVars == <<mainPc, nextFile, ctxDone, cancels, sinkAtCancel, sigPending>>
sinkVars == <<sink, sinkSrc, sinkClosed, failedWrites>>
fileVars == <<filePc, fileEnd, fileHandle, closes, dones>>
stdinVars == <<stdinPc, stdinErrs>>
vars == <<cfgVars, mainVars, sinkVars, fileVars, stdinVars, wg, readLog, buff>>

Files == 1..MaxFiles
Stdin == 0
Pumps == {Stdin} \cup Files

FieldLists == UNION {[1..n -> Paths] : n \in 1..MaxFields}
ColorLists == UNION {[1..n -> ColorNames] : n \in 0..MaxColors}

RECURSIVE LinesOf(_, _)
LinesOf(log, ps) ==
  IF ps = {} THEN 0
  ELSE LET p == CHOOSE q \in ps : TRUE IN Len(log[p]) + LinesOf(log, ps \ {p})

\* the lines read so far, over all the sources
LinesRead == LinesOf(readLog, Pumps)

\* the process runs until main returns or panics (log.Panicf)
Panics == {"statpanic", "closepanic"}
Alive == mainPc \notin {"stopped"} \cup Panics

\* ------------------------------------------------------------- the pumps
\* buff.Reset(); print(line, ...) by pump p, on line number n of its source
Format(p, line, n) ==
  LET r == print(line, outFields, outColors, Reset(buff[p])) IN
  /\ buff' = [buff EXCEPT ![p] = r.buff]
  /\ IF r.write
     THEN /\ sink' = SinkWrite(sink, sinkClosed, r.buff)
          /\ sinkSrc' = SinkWrite(sinkSrc, sinkClosed, <<p, n>>)
          /\ failedWrites' = IF sinkClosed THEN failedWrites \cup {p} ELSE failedWrites
     ELSE UNCHANGED <<sink, sinkSrc, failedWrites>>
  /\ UNCHANGED sinkClosed

\* a pipeFile whose wg.Done() is deferred after the file is open: a failed
\* open returns without it
FileReturnDoneIfOpened(i, how, opened) ==
  /\ filePc' = [filePc EXCEPT ![i] = "done"]
  /\ fileEnd' = [fileEnd EXCEPT ![i] = how]
  /\ fileHandle' = [fileHandle EXCEPT ![i] = IF opened THEN "closed" ELSE @]
  /\ closes' = [closes EXCEPT ![i] = IF opened THEN @ + 1 ELSE @]
  /\ dones' = [dones EXCEPT ![i] = IF opened THEN @ + 1 ELSE @]
  /\ wg' = IF opened THEN wg - 1 ELSE wg

\* pipeFile returns: the deferred f.Close() (when the file was opened), then
\* the deferred wg.Done()
FileReturn(i, how, opened) ==
  /\ filePc' = [filePc EXCEPT ![i] = "done"]
  /\ fileEnd' = [fileEnd EXCEPT ![i] = how]
  /\ fileHandle' = [fileHandle EXCEPT ![i] = IF opened THEN "closed" ELSE @]
  /\ closes' = [closes EXCEPT ![i] = IF opened THEN @ + 1 ELSE @]
  /\ dones' = [dones EXCEPT ![i] = @ + 1]
  /\ wg' = wg - 1

\* os.OpenFile succeeds
FileOpen(i) ==
  /\ Alive /\ filePc[i] = "open"
  /\ filePc' = [filePc EXCEPT ![i] = "check"]
  /\ fileHandle' = [fileHandle EXCEPT ![i] = "open"]
  /\ UNCHANGED <<cfgVars, mainVars, sinkVars, stdinVars, fileEnd, closes, dones, wg, readLog, buff>>

\* os.OpenFile fails: log and return
FileOpenFail(i) ==
  /\ Alive /\ filePc[i] = "open"
  /\ FileReturn(i, "openfail", FALSE)
  /\ UNCHANGED <<cfgVars, mainVars, sinkVars, stdinVars, readLog, buff>>

\* a pump that does not look at ctx.Done(): it goes on to scanner.Scan()
FileCancelledIgnored(i) ==
  /\ Alive /\ filePc[i] = "check" /\ ctxDone
  /\ filePc' = [filePc EXCEPT ![i] = "scan"]
  /\ UNCHANGED <<cfgVars, mainVars, sinkVars, stdinVars, fileEnd, fileHandle, closes, dones, wg, readLog, buff>>

\* a pump that returns on cancellation without the deferred f.Close()
FileCancelledNoClose(i) ==
  /\ Alive /\ filePc[i] = "check" /\ ctxDone
  /\ FileReturn(i, "cancel", FALSE)
  /\ UNCHANGED <<cfgVars, mainVars, sinkVars, stdinVars, readLog, buff>>

\* select: ctx.Done() is closed, return
FileCancelled(i) ==
  /\ Alive /\ filePc[i] = "check" /\ ctxDone
  /\ FileReturn(i, "cancel", TRUE)
  /\ UNCHANGED <<cfgVars, mainVars, sinkVars, stdinVars, readLog, buff>>

\* a select that may take default although ctx.Done() is closed
FileCheckBlind(i) ==
  /\ Alive /\ filePc[i] = "check"
  /\ filePc' = [filePc EXCEPT ![i] = "scan"]
  /\ UNCHANGED <<cfgVars, mainVars, sinkVars, stdinVars, fileEnd, fileHandle, closes, dones, wg, readLog, buff>>

\* select: default, go on to scanner.Scan()
FileCheck(i) ==
  /\ Alive /\ filePc[i] = "check" /\ ~ctxDone
  /\ filePc' = [filePc EXCEPT ![i] = "scan"]
  /\ UNCHANGED <<cfgVars, mainVars, sinkVars, stdinVars, fileEnd, fileHandle, closes, dones, wg, readLog, buff>>

\* scanner.Scan() delivers line: reset the buffer, print, loop
FileLine(i, line) ==
  /\ Alive /\ filePc[i] = "scan"
  /\ readLog' = [readLog EXCEPT ![i] = Append(@, line)]
  /\ Format(i, line, Len(readLog[i]) + 1)
  /\ filePc' = [filePc EXCEPT ![i] = "check"]
  /\ UNCHANGED <<cfgVars, mainVars, stdinVars, fileEnd, fileHandle, closes, dones, wg>>

FileScan(i) == LinesRead < MaxLines /\ \E line \in SampleLines : FileLine(i, line)

\* the file goes on beyond the lines that are logged: scanner.Scan()
\* delivers one more line, which has none of the fields; reset, print, loop
FileScanMore(i) ==
  /\ Alive /\ filePc[i] = "scan" /\ LinesRead >= MaxLines
  /\ Format(i, LineNone, Len(readLog[i]) + 1)
  /\ filePc' = [filePc EXCEPT ![i] = "check"]
  /\ UNCHANGED <<cfgVars, mainVars, stdinVars, fileEnd, fileHandle, closes, dones, wg, readLog>>

\* scanner.Scan() is false, scanner.Err() is nil
FileEOF(i) ==
  /\ Alive /\ filePc[i] = "scan"
  /\ FileReturn(i, "eof", TRUE)
  /\ UNCHANGED <<cfgVars, mainVars, sinkVars, stdinVars, readLog, buff>>

\* scanner.Scan() is false, scanner.Err() is an error
FileScanErr(i) ==
  /\ Alive /\ filePc[i] = "scan"
  /\ FileReturn(i, "scanerr", TRUE)
  /\ UNCHANGED <<cfgVars, mainVars, sinkVars, stdinVars, readLog, buff>>

\* reader.ReadLine() delivers line: reset the buffer, print, loop
StdinLine(line) ==
  /\ Alive /\ stdinPc = "read"
  /\ readLog' = [readLog EXCEPT ![Stdin] = Append(@, line)]
  /\ Format(Stdin, line, Len(readLog[Stdin]) + 1)
  /\ UNCHANGED <<cfgVars, mainVars, fileVars, stdinVars, wg>>

StdinRead == LinesRead < MaxLines /\ \E line \in SampleLines : StdinLine(line)

\* reader.ReadLine() returns io.EOF
StdinEOF ==
  /\ Alive /\ stdinPc = "read"
  /\ stdinPc' = "done"
  /\ UNCHANGED <<cfgVars, mainVars, sinkVars, fileVars, stdinErrs, wg, readLog, buff>>

\* a pump that returns on any error of reader.ReadLine()
StdinReadErrEnds ==
  /\ Alive /\ stdinPc = "read" /\ stdinErrs < MaxErrs
  /\ stdinErrs' = stdinErrs + 1
  /\ stdinPc' = "done"
  /\ UNCHANGED <<cfgVars, mainVars, sinkVars, fileVars, wg, readLog, buff>>

\* reader.ReadLine() returns another error and a nil line: the nil line is
\* printed (no path is found in it) and the loop goes on
StdinReadErr ==
  /\ Alive /\ stdinPc = "read" /\ stdinErrs < MaxErrs
  /\ stdinErrs' = stdinErrs + 1
  /\ Format(Stdin, LineNone, Len(readLog[Stdin]) + 1)
  /\ UNCHANGED <<cfgVars, mainVars, fileVars, stdinPc, wg, readLog>>

\* ------------------------------------------------------ the coordinator
\* os.Stdin.Stat() fails: panic
MainStatFail ==
  /\ mainPc = "start"
  /\ mainPc' = "statpanic"
  /\ UNCHANGED <<cfgVars, nextFile, ctxDone, cancels, sinkAtCancel, sigPending, sinkVars, fileVars, stdinVars, wg, readLog, buff>>

\* a main that starts the stdin pump whatever stdin is
MainStatAlwaysStdin ==
  /\ mainPc = "start"
  /\ mainPc' = "launch"
  /\ stdinPc' = "read"
  /\ UNCHANGED <<cfgVars, nextFile, ctxDone, cancels, sinkAtCancel, sigPending, sinkVars, fileVars, stdinErrs, wg, readLog, buff>>

\* os.Stdin.Stat() succeeds; when stdin is piped the stdin pump is started
MainStat ==
  /\ mainPc = "start"
  /\ mainPc' = "launch"
  /\ stdinPc' = IF isPiped THEN "read" ELSE stdinPc
  /\ UNCHANGED <<cfgVars, nextFile, ctxDone, cancels, sinkAtCancel, sigPending, sinkVars, fileVars, stdinErrs, wg, readLog, buff>>

\* a loop that starts the pump without wg.Add(1)
MainLaunchNoAdd ==
  /\ mainPc = "launch" /\ nextFile <= nFiles
  /\ filePc' = [filePc EXCEPT ![nextFile] = "open"]
  /\ nextFile' = nextFile + 1
  /\ UNCHANGED <<cfgVars, mainPc, ctxDone, cancels, sinkAtCancel, sigPending, sinkVars, fileEnd, fileHandle, closes, dones, stdinVars, wg, readLog, buff>>

\* one turn of the loop over fileStrs: wg.Add(1); go pipeFile(...)
MainLaunch ==
  /\ mainPc = "launch" /\ nextFile <= nFiles
  /\ wg' = wg + 1
  /\ filePc' = [filePc EXCEPT ![nextFile] = "open"]
  /\ nextFile' = nextFile + 1
  /\ UNCHANGED <<cfgVars, mainPc, ctxDone, cancels, sinkAtCancel, sigPending, sinkVars, fileEnd, fileHandle, closes, dones, stdinVars, readLog, buff>>

\* a main that goes to wg.Wait() without the wait on stopChan
MainDispatchedNoTrap ==
  /\ mainPc = "launch" /\ nextFile > nFiles
  /\ mainPc' = "wait"
  /\ UNCHANGED <<cfgVars, nextFile, ctxDone, cancels, sinkAtCancel, sigPending, sinkVars, fileVars, stdinVars, wg, readLog, buff>>

\* the loop is over: with a piped stdin signal.Notify and wait on stopChan,
\* otherwise straight to wg.Wait()
MainDispatched ==
  /\ mainPc = "launch" /\ nextFile > nFiles
  /\ mainPc' = IF isPiped THEN "trap" ELSE "wait"
  /\ UNCHANGED <<cfgVars, nextFile, ctxDone, cancels, sinkAtCancel, sigPending, sinkVars, fileVars, stdinVars, wg, readLog, buff>>

\* SIGINT or SIGTERM reaches the process while main waits on stopChan
Interrupt ==
  /\ mainPc = "trap" /\ ~sigPending
  /\ sigPending' = TRUE
  /\ UNCHANGED <<cfgVars, mainPc, nextFile, ctxDone, cancels, sinkAtCancel, sinkVars, fileVars, stdinVars, wg, readLog, buff>>

\* a main that cancels and goes back to wait on stopChan
MainTrapAgain ==
  /\ mainPc = "trap" /\ sigPending
  /\ sigPending' = FALSE
  /\ ctxDone' = TRUE
  /\ cancels' = cancels + 1
  /\ sinkAtCancel' = Len(sinkSrc)
  /\ UNCHANGED <<cfgVars, mainPc, nextFile, sinkVars, fileVars, stdinVars, wg, readLog, buff>>

\* sig := <-stopChan; ctxCancel()
MainTrap ==
  /\ mainPc = "trap" /\ sigPending
  /\ sigPending' = FALSE
  /\ ctxDone' = TRUE
  /\ cancels' = cancels + 1
  /\ sinkAtCancel' = Len(sinkSrc)
  /\ mainPc' = "wait"
  /\ UNCHANGED <<cfgVars, nextFile, sinkVars, fileVars, stdinVars, wg, readLog, buff>>

\* a main that does not wait for the file pumps
MainWaitNoBarrier ==
  /\ mainPc = "wait"
  /\ mainPc' = "close"
  /\ UNCHANGED <<cfgVars, nextFile, ctxDone, cancels, sinkAtCancel, sigPending, sinkVars, fileVars, stdinVars, wg, readLog, buff>>

\* wg.Wait() returns
MainWait ==
  /\ mainPc = "wait" /\ wg = 0
  /\ mainPc' = "close"
  /\ UNCHANGED <<cfgVars, nextFile, ctxDone, cancels, sinkAtCancel, sigPending, sinkVars, fileVars, stdinVars, wg, readLog, buff>>

\* outputWriter.Close() succeeds
MainClose ==
  /\ mainPc = "close"
  /\ sinkClosed' = TRUE
  /\ mainPc' = "exit"
  /\ UNCHANGED <<cfgVars, nextFile, ctxDone, cancels, sinkAtCancel, sigPending, sink, sinkSrc, failedWrites, fileVars, stdinVars, wg, readLog, buff>>

\* outputWriter.Close() fails: panic
MainCloseFail ==
  /\ mainPc = "close"
  /\ mainPc' = "closepanic"
  /\ UNCHANGED <<cfgVars, nextFile, ctxDone, cancels, sinkAtCancel, sigPending, sinkVars, fileVars, stdinVars, wg, readLog, buff>>

\* log "nice: exit" and return from main: the process is over
MainExit ==
  /\ mainPc = "exit"
  /\ mainPc' = "stopped"
  /\ UNCHANGED <<cfgVars, nextFile, ctxDone, cancels, sinkAtCancel, sigPending, sinkVars, fileVars, stdinVars, wg, readLog, buff>>

\* --------------------------------------------------------- specifications
RunFieldLists == {<<"time", "msg">>}
RunColorLists == {<<>>}

InitRun ==
  /\ mainPc = "start"
  /\ nextFile = 1
  /\ wg = 0
  /\ ctxDone = FALSE
  /\ cancels = 0
  /\ sinkAtCancel = 0
  /\ sigPending = FALSE
  /\ sink = <<>>
  /\ sinkSrc = <<>>
  /\ sinkClosed = FALSE
  /\ failedWrites = {}
  /\ filePc = [i \in Files |-> "idle"]
  /\ fileEnd = [i \in Files |-> "none"]
  /\ fileHandle = [i \in Files |-> "none"]
  /\ closes = [i \in Files |-> 0]
  /\ dones = [i \in Files |-> 0]
  /\ stdinPc = "idle"
  /\ stdinErrs = 0
  /\ readLog = [p \in Pumps |-> <<>>]
  /\ buff = [p \in Pumps |-> <<>>]

Init ==
  /\ outFields \in RunFieldLists
  /\ outColors \in RunColorLists
  /\ fFieldColors = ColorsText(outColors)
  /\ getColorFormat(fFieldColors) = outColors
  /\ nFiles \in 0..MaxFiles
  /\ isPiped \in BOOLEAN
  /\ InitRun

FileStep(i) ==
  \/ FileOpen(i)
  \/ FileOpenFail(i)
  \/ FileCancelled(i)
  \/ FileCheck(i)
  \/ FileScan(i)
  \/ FileScanMore(i)
  \/ FileEOF(i)
  \/ FileScanErr(i)

MainStep ==
  \/ MainStatFail
  \/ MainStat
  \/ MainLaunch
  \/ MainDispatched
  \/ MainTrap
  \/ MainWait
  \/ MainClose
  \/ MainCloseFail
  \/ MainExit

Next ==
  \/ MainStatFail
  \/ MainStat
  \/ MainLaunch
  \/ MainDispatched
  \/ Interrupt
  \/ MainTrap
  \/ MainWait
  \/ MainClose
  \/ MainCloseFail
  \/ MainExit
  \/ \E i \in Files : FileOpen(i)
  \/ \E i \in Files : FileOpenFail(i)
  \/ \E i \in Files : FileCancelled(i)
  \/ \E i \in Files : FileCheck(i)
  \/ \E i \in Files : FileScan(i)
  \/ \E i \in Files : FileScanMore(i)
  \/ \E i \in Files : FileEOF(i)
  \/ \E i \in Files : FileScanErr(i)
  \/ StdinRead
  \/ StdinEOF
  \/ StdinReadErr

Spec == Init /\ [][Next]_vars

\* the Go scheduler runs every goroutine that can run: main and the file
\* pumps keep taking their steps.  Nothing is assumed of the signal or of
\* stdin.
Fairness ==
  /\ WF_vars(MainStep)
  /\ \A i \in Files : WF_vars(FileStep(i))

FairSpec == Spec /\ Fairness

\* ------------------------------------------------- the formatter alone
\* One line through print, for every document and every choice of -f and
\* -colors: main waits for the signal, the stdin pump and the pump of one
\* file wait for their first line.
InitFormat ==
  /\ outFields \in FieldLists
  /\ outColors \in ColorLists
  /\ fFieldColors = ColorsText(outColors)
  /\ getColorFormat(fFieldColors) = outColors
  /\ nFiles = 1
  /\ isPiped = TRUE
  /\ mainPc = "trap"
  /\ nextFile = 2
  /\ wg = 1
  /\ ctxDone = FALSE
  /\ cancels = 0
  /\ sinkAtCancel = 0
  /\ sigPending = FALSE
  /\ sink = <<>>
  /\ sinkSrc = <<>>
  /\ sinkClosed = FALSE
  /\ failedWrites = {}
  /\ filePc = [i \in Files |-> IF i = 1 THEN "scan" ELSE "idle"]
  /\ fileEnd = [i \in Files |-> "none"]
  /\ fileHandle = [i \in Files |-> IF i = 1 THEN "open" ELSE "none"]
  /\ closes = [i \in Files |-> 0]
  /\ dones = [i \in Files |-> 0]
  /\ stdinPc = "read"
  /\ stdinErrs = 0
  /\ readLog = [p \in Pumps |-> <<>>]
  /\ buff = [p \in Pumps |-> <<>>]

FormatStdin == LinesRead = 0 /\ \E line \in AllLines : StdinLine(line)

FormatFile == LinesRead = 0 /\ \E line \in AllLines : FileLine(1, line)

NextFormat ==
  \/ FormatStdin
  \/ FormatFile

SpecFormat == InitFormat /\ [][NextFormat]_vars

\* ------------------------------------------------- the color flag alone
\* -colors texts: up to MaxTokens tokens, each a color name, another word or
\* nothing, as it is, in capitals, between blanks, or both
TokenNames == {"black", "red", "green", "yellow", "blue", "magenta", "cyan", "white", "pink", ""}
TokenStyles == {"plain", "upper", "padded", "upperpadded"}

ToUpperChar(c) ==
  IF \E k \in 1..Len(LowerAlpha) : LowerAlpha[k] = c
  THEN UpperAlpha[CHOOSE k \in 1..Len(LowerAlpha) : LowerAlpha[k] = c]
  ELSE c

ToUpper(s) == [k \in 1..Len(s) |-> ToUpperChar(s[k])]

TokenText(name, style) ==
  CASE style = "plain" -> Chars(name)
    [] style = "upper" -> ToUpper(Chars(name))
    [] style = "padded" -> <<" ">> \o Chars(name) \o <<" ">>
    [] OTHER -> <<TAB>> \o ToUpper(Chars(name)) \o <<" ">>

Tokens == {TokenText(name, style) : name \in TokenNames, style \in TokenStyles}

RECURSIVE JoinComma(_)
JoinComma(toks) ==
  IF toks = <<>> THEN <<>>
  ELSE IF Len(toks) = 1 THEN toks[1]
  ELSE toks[1] \o <<COMMA>> \o JoinComma(Tail(toks))

ColorSpecs == {JoinComma(toks) : toks \in UNION {[1..n -> Tokens] : n \in 0..MaxTokens}}

\* main before the flags are read into outColors
InitColors ==
  /\ outFields \in RunFieldLists
  /\ fFieldColors \in ColorSpecs
  /\ outColors = <<>>
  /\ nFiles = 0
  /\ isPiped = FALSE
  /\ mainPc = "flags"
  /\ nextFile = 1
  /\ wg = 0
  /\ ctxDone = FALSE
  /\ cancels = 0
  /\ sinkAtCancel = 0
  /\ sigPending = FALSE
  /\ sink = <<>>
  /\ sinkSrc = <<>>
  /\ sinkClosed = FALSE
  /\ failedWrites = {}
  /\ filePc = [i \in Files |-> "idle"]
  /\ fileEnd = [i \in Files |-> "none"]
  /\ fileHandle = [i \in Files |-> "none"]
  /\ closes = [i \in Files |-> 0]
  /\ dones = [i \in Files |-> 0]
  /\ stdinPc = "idle"
  /\ stdinErrs = 0
  /\ readLog = [p \in Pumps |-> <<>>]
  /\ buff = [p \in Pumps |-> <<>>]

\* outColors := getColorFormat(fFieldColors)
MainFlags ==
  /\ mainPc = "flags"
  /\ outColors' = getColorFormat(fFieldColors)
  /\ mainPc' = "start"
  /\ UNCHANGED <<outFields, fFieldColors, nFiles, isPiped, nextFile, ctxDone, cancels, sinkAtCancel, sigPending, sinkVars, fileVars, stdinVars, wg, readLog, buff>>

NextColors == MainFlags

SpecColors == InitColors /\ [][NextColors]_vars

\* ================================================================ claims
IsPrefix(a, b) == Len(a) <= Len(b) /\ SubSeq(b, 1, Len(a)) = a

\* every file pump that was launched has returned
FilePumpsEnded == \A i \in Files : filePc[i] \in {"idle", "done"}

\* main has returned after closing the output
Stopped == mainPc = "stopped" /\ sinkClosed

\* C1: once cancellation is triggered (piped mode, after the interrupt),
\* every file pump ends, whether or not its file has an end; what the sink
\* holds is only ever extended; and main passes wg.Wait(), closes the sink
\* and returns (the one other way out is the panic on a failing Close).
C1_CancelStopsFilePumps ==
  /\ [][ctxDone => IsPrefix(sink, sink')]_vars
  /\ [](ctxDone => isPiped)
  /\ ctxDone ~> (FilePumpsEnded /\ wg = 0 /\ (Stopped \/ mainPc = "closepanic"))

\* a run that was cancelled while a pump was in the middle of its file, and
\* has stopped with the earlier output in the closed sink
C1_Witness ==
  /\ Stopped /\ ctxDone /\ sink # <<>>
  /\ \E i \in Files : fileEnd[i] = "cancel" /\ readLog[i] # <<>>

\* ------------------------------------------------ the formatter's claims
\* In SpecFormat one pump has formatted one line; these name it.
Formatted(p) == readLog[p] # <<>>
TheLine(p) == readLog[p][1]
\* the bytes handed to the sink for it (none: no write)
Written == IF sink = <<>> THEN <<>> ELSE sink[1]
\* the pump is in its loop, ready for its next line
InLoop(p) == IF p = Stdin THEN stdinPc = "read" ELSE filePc[p] = "check"

OnlySpace(text) == \A k \in 1..Len(text) : text[k] \in SpaceChars

RECURSIVE JoinTab(_)
JoinTab(vals) ==
  IF vals = <<>> THEN <<>>
  ELSE IF Len(vals) = 1 THEN vals[1]
  ELSE vals[1] \o <<TAB>> \o JoinTab(Tail(vals))

\* the values print emits for line, in the order of fields
RECURSIVE EmittedVals(_, _, _)
EmittedVals(line, fields, idx) ==
  IF idx > Len(fields) THEN <<>>
  ELSE LET val == Val(Get(line, fields[idx])) IN
       (IF OnlySpace(val) THEN <<>> ELSE <<val>>) \o EmittedVals(line, fields, idx + 1)

\* C2 (as claimed): without colors, the bytes written for a line are its
\* emitted values joined by single tabs and ended by a newline, with no tab
\* before the newline: T1<TAB>info<TAB>hi<NL> for time,level,msg and T1<NL>
\* for time,msg with an empty msg.
C2_JoinedByTabs ==
  \A p \in Pumps :
    (Formatted(p) /\ outColors = <<>> /\ sink # <<>>)
      => Written = JoinTab(EmittedVals(TheLine(p), outFields, 1)) \o <<NL>>

\* gjson's Result.String(): the string form of a value
StringForm(v) == v.text

\* the output the claimed extraction gives: every field whose raw text
\* (container) or string form (scalar) is not blank adds that text and a tab
RECURSIVE ClaimedBuff(_, _, _)
ClaimedBuff(line, fields, idx) ==
  IF idx > Len(fields) THEN <<>>
  ELSE LET v == line[fields[idx]] IN
       (IF OnlySpace(StringForm(v)) THEN <<>> ELSE StringForm(v) \o <<TAB>>)
         \o ClaimedBuff(line, fields, idx + 1)

\* C3 (as claimed): a requested path that resolves to a container gives its
\* raw text and one that resolves to a scalar (string, number, true, false)
\* gives its string form, so every scalar that is not blank has a segment in
\* the output.
C3_ScalarsByStringForm ==
  \A p \in Pumps :
    (Formatted(p) /\ outColors = <<>>)
      => LET b == ClaimedBuff(TheLine(p), outFields, 1) IN
         Written = IF b = <<>> THEN <<>> ELSE b \o <<NL>>

\* no requested path is in the document, or holds anything but a string of
\* white space
NoFieldHasValue(line, fields) ==
  \A idx \in 1..Len(fields) :
    LET v == line[fields[idx]] IN
    v.kind = "Absent" \/ (v.kind = "String" /\ OnlySpace(v.text))

\* C4: a line none of whose requested fields has a value causes no write at
\* all (no bare newline either), and the pump that read it is back in its
\* loop for the next line.
C4_NoValueNoWrite ==
  \A p \in Pumps :
    (Formatted(p) /\ NoFieldHasValue(TheLine(p), outFields))
      => sink = <<>> /\ failedWrites = {} /\ InLoop(p)

\* a pump has formatted {} or a line of blanks for two or more fields and is
\* back in its loop
C4_Witness ==
  \E p \in Pumps :
    /\ Formatted(p) /\ NoFieldHasValue(TheLine(p), outFields)
    /\ Len(outFields) >= 2
    /\ \E idx \in 1..Len(outFields) : TheLine(p)[outFields[idx]].kind = "String"
    /\ sink = <<>> /\ InLoop(p)

\* what field idx may add to the line: nothing when its path is absent or
\* holds a blank string, its segment when it holds another string or a
\* container (numbers and booleans are left open here, see C3)
CellChoices(line, fields, colors, idx) ==
  LET v == line[fields[idx]] IN
  CASE v.kind = "Absent" -> {<<>>}
    [] v.kind = "String" /\ OnlySpace(v.text) -> {<<>>}
    [] v.kind \in {"String", "JSON"} -> {Segment(idx, v.text, colors)}
    [] OTHER -> {<<>>, Segment(idx, v.text, colors)}

RECURSIVE Candidates(_, _, _, _)
Candidates(line, fields, colors, idx) ==
  IF idx > Len(fields) THEN {<<>>}
  ELSE {a \o b : a \in CellChoices(line, fields, colors, idx),
                 b \in Candidates(line, fields, colors, idx + 1)}

\* the output line without its newline
Body == IF Written = <<>> THEN <<>> ELSE SubSeq(Written, 1, Len(Written) - 1)

PastBarrier == mainPc \in {"close", "exit", "stopped", "closepanic"}

\* every configured file has its pump
Dispatched == mainPc \notin {"start", "launch", "statpanic"}

\* C6: main closes the sink and returns exactly when every file pump has
\* ended and, with a piped stdin, the interrupt has been received: it is
\* never past wg.Wait() before that (not even with stdin at its end and all
\* file pumps done), and once that holds it goes on to close and return.
C6_StopsExactlyWhen ==
  /\ []((PastBarrier \/ sinkClosed) => (FilePumpsEnded /\ nextFile > nFiles /\ (isPiped => ctxDone)))
  /\ (Dispatched /\ FilePumpsEnded /\ (isPiped => ctxDone)) ~> (Stopped \/ mainPc = "closepanic")

\* piped, stdin at its end, both file pumps done, and main still waits for
\* the signal with the sink open
C6_Witness ==
  /\ isPiped /\ stdinPc = "done" /\ nFiles = 2 /\ FilePumpsEnded
  /\ mainPc = "trap" /\ ~sigPending /\ ~sinkClosed /\ ~ctxDone

\* the line has a value print emits for one of the requested fields
HasValue(line) == \E idx \in 1..Len(outFields) : ~OnlySpace(Val(Get(line, outFields[idx])))

\* every logged line of pump p that has a value was handed to the sink
EveryLineEmitted(p) ==
  \A n \in 1..Len(readLog[p]) :
    HasValue(readLog[p][n]) => \E k \in 1..Len(sinkSrc) : sinkSrc[k] = <<p, n>>

\* C7: when stdin is not piped no stdin pump is started, main never waits
\* for a signal and never cancels; no file pump ends by cancellation and
\* each has every line it read in the sink; and if every file has an end,
\* main closes the sink and returns (the other ways out are the two panics).
C7_NotPipedRunsToEnd ==
  /\ [](~isPiped => (stdinPc = "idle" /\ mainPc # "trap" /\ ~sigPending /\ ~ctxDone /\ cancels = 0))
  /\ [](~isPiped => \A i \in Files : fileEnd[i] # "cancel" /\ EveryLineEmitted(i))
  /\ (\A i \in Files : <>[][~FileScanMore(i)]_vars)
       => (~isPiped ~> (FilePumpsEnded /\ (Stopped \/ mainPc \in Panics)))

\* not piped: two files read to their ends, their lines in the closed sink
C7_Witness ==
  /\ ~isPiped /\ Stopped /\ nFiles = 2
  /\ \A i \in Files : fileEnd[i] = "eof" /\ readLog[i] # <<>>
  /\ Len(sink) >= 2

\* C8: the sink is closed only after every file pump has ended: whenever it
\* is closed no file pump is running, and no file pump ever had a write
\* refused.
C8_ClosedAfterFilePumps ==
  /\ sinkClosed => (FilePumpsEnded /\ nextFile > nFiles /\ wg = 0)
  /\ failedWrites \cap Files = {}

\* a closed sink that holds lines of both file pumps
C8_Witness ==
  /\ sinkClosed /\ nFiles = 2
  /\ \A i \in Files : \E k \in 1..Len(sinkSrc) : sinkSrc[k][1] = i

\* C9 (as claimed): main waits for the stdin pump too: with the sink closed
\* the stdin pump has finished, so it never writes to a closed sink.
C9_StdinPumpJoined ==
  /\ sinkClosed => stdinPc \in {"idle", "done"}
  /\ Stdin \notin failedWrites

\* C9 (amended): main does not wait for the stdin pump; the pump may still
\* be reading when the sink is closed, until main returns.  A write it makes
\* then is refused: the content of a closed sink never changes, only the
\* stdin pump ever has a write refused, and nothing runs once main is back.
C9_ClosedSinkRefusesStdin ==
  /\ [][sinkClosed => (sink' = sink /\ sinkSrc' = sinkSrc /\ sinkClosed')]_vars
  /\ [](failedWrites \subseteq {Stdin})
  /\ [](Stdin \in failedWrites => (sinkClosed /\ isPiped))
  /\ [][Alive]_vars

\* the sink is closed, the stdin pump is still reading and has had a write
\* refused
C9_Witness == sinkClosed /\ stdinPc = "read" /\ Stdin \in failedWrites /\ mainPc = "exit"

\* the file pumps that are launched and have not returned
Running == {i \in Files : filePc[i] \in {"open", "check", "scan"}}

\* pump i fails: its file does not open, or its scanner reports an error
Fails(i) == FileOpenFail(i) \/ FileScanErr(i)

\* C10: a file pump that fails ends alone: the step leaves main where it is
\* (no panic), leaves the cancellation, the sink, the stdin pump and every
\* other file pump as they were, and takes that pump off the barrier, so
\* that wg always counts the pumps still running and main is not held up by
\* the failed one; the other pumps' lines are all emitted.
C10_FailureEndsOnlyThatPump ==
  /\ [][\A i \in Files : Fails(i) =>
          /\ mainPc' = mainPc /\ ctxDone' = ctxDone /\ sinkVars' = sinkVars
          /\ stdinVars' = stdinVars /\ readLog' = readLog /\ buff' = buff
          /\ wg' = wg - 1 /\ filePc'[i] = "done"
          /\ \A j \in Files \ {i} :
               /\ filePc'[j] = filePc[j] /\ fileHandle'[j] = fileHandle[j]
               /\ fileEnd'[j] = fileEnd[j]]_vars
  /\ [](wg = Cardinality(Running))
  /\ [](\A i \in Files : EveryLineEmitted(i))
  /\ [](Stdin \notin failedWrites => EveryLineEmitted(Stdin))

\* one pump could not open its file and the other hit a scanner error after
\* a line; the stdin pump and the second pump have their lines in the sink
\* and main has stopped
C10_Witness ==
  /\ Stopped /\ fileEnd[1] = "openfail" /\ fileEnd[2] = "scanerr" /\ wg = 0
  /\ \E k \in 1..Len(sinkSrc) : sinkSrc[k][1] = 2
  /\ \E k \in 1..Len(sinkSrc) : sinkSrc[k][1] = Stdin

\* ------------------------------------------------ the color flag's claim
\* the places of the commas in a text, and the number of its pieces
CommaAt(text) == {k \in 1..Len(text) : text[k] = COMMA}
NPieces(text) == Cardinality(CommaAt(text)) + 1

\* the place of the i-th comma (0 before the first piece, Len + 1 after the last)
Cut(text, i) ==
  IF i = 0 THEN 0
  ELSE IF i > Cardinality(CommaAt(text)) THEN Len(text) + 1
  ELSE CHOOSE k \in CommaAt(text) : Cardinality({j \in CommaAt(text) : j < k}) = i - 1

Piece(text, i) == SubSeq(text, Cut(text, i - 1) + 1, Cut(text, i) - 1)

\* a piece without the white space around it
Core(piece) ==
  LET inked == {k \in 1..Len(piece) : piece[k] \notin SpaceChars} IN
  IF inked = {} THEN <<>>
  ELSE SubSeq(piece, CHOOSE k \in inked : \A j \in inked : k <= j,
                     CHOOSE k \in inked : \A j \in inked : k >= j)

\* the same word, whatever the case of its letters
SameWord(word, name) ==
  /\ Len(word) = Len(Chars(name))
  /\ \A k \in 1..Len(word) : word[k] \in {Chars(name)[k], ToUpperChar(Chars(name)[k])}

EightColors == {"black", "red", "green", "yellow", "blue", "magenta", "cyan", "white"}

Expected(piece) ==
  IF \E name \in EightColors : SameWord(Core(piece), name)
  THEN CHOOSE name \in EightColors : SameWord(Core(piece), name)
  ELSE "reset"

\* C11: once the flag is read, outColors has one directive for each piece
\* between the commas of the text, in order: the color the piece names when
\* the blanks around it and the case of its letters are left aside, reset
\* for any other piece; an empty or blank text gives no directive.
C11_OneDirectivePerToken ==
  mainPc = "start" =>
    IF \A k \in 1..Len(fFieldColors) : fFieldColors[k] \in SpaceChars
    THEN outColors = <<>>
    ELSE /\ Len(outColors) = NPieces(fFieldColors)
         /\ \A i \in 1..Len(outColors) : outColors[i] = Expected(Piece(fFieldColors, i))

\* " RED ,pink" read as red, reset
C11_Witness ==
  /\ mainPc = "start"
  /\ fFieldColors = <<TAB, "R", "E", "D", " ", COMMA, "p", "i", "n", "k">>
  /\ outColors = <<"red", "reset">>

\* --------------------------------------------------- the colors' claims
\* the segment claimed for the value of field i (fields and directives are
\* counted from 1 here, from 0 in the code)
ClaimedSegment(i, val) ==
  IF i <= Len(outColors)
  THEN <<ColorCode(outColors[i])>> \o val \o <<TAB, "ESC[0m">>
  ELSE val \o <<TAB>>

RECURSIVE ClaimedColored(_, _)
ClaimedColored(line, i) ==
  IF i > Len(outFields) THEN <<>>
  ELSE LET val == Val(Get(line, outFields[i])) IN
       (IF OnlySpace(val) THEN <<>> ELSE ClaimedSegment(i, val)) \o ClaimedColored(line, i + 1)

\* the directives that have a field
UsedColors ==
  SubSeq(outColors, 1, IF Len(outColors) < Len(outFields) THEN Len(outColors) ELSE Len(outFields))

\* C12: every emitted field is colored by the directive at its own index in
\* the field list, whatever fields before it were skipped, and is plain when
\* the directives end before that index; the directives past the last field
\* change nothing: the line is the one the directives that have a field give.
C12_ColorByFieldIndex ==
  \A p \in Pumps :
    Formatted(p) =>
      /\ Body = ClaimedColored(TheLine(p), 1)
      /\ Body = AppendFields(TheLine(p), outFields, UsedColors, <<>>, 1)

\* time is absent, level is emitted in green (the second directive) and msg
\* is emitted plain
C12_Witness ==
  \E p \in Pumps :
    /\ Formatted(p)
    /\ outFields = <<"time", "level", "msg">>
    /\ outColors = <<"red", "green">>
    /\ TheLine(p)["time"].kind = "Absent"
    /\ TheLine(p)["level"].kind = "String" /\ ~OnlySpace(TheLine(p)["level"].text)
    /\ TheLine(p)["msg"].kind = "String" /\ ~OnlySpace(TheLine(p)["msg"].text)
    /\ Body = <<"ESC[32m">> \o TheLine(p)["level"].text \o <<TAB, "ESC[0m">> \o TheLine(p)["msg"].text \o <<TAB>>

\* ------------------------------------------------ the ordering's claims
\* the place in the sink of the output of line n of source p (0: not there)
PlaceOf(p, n) ==
  IF \E k \in 1..Len(sinkSrc) : sinkSrc[k] = <<p, n>>
  THEN CHOOSE k \in 1..Len(sinkSrc) : sinkSrc[k] = <<p, n>>
  ELSE 0

\* C13: the sink only grows at its end, and the output lines of one source
\* stand in it in the order of their input lines, whatever the other pumps
\* wrote in between.
C13_SourceOrderKept ==
  /\ [][IsPrefix(sink, sink') /\ IsPrefix(sinkSrc, sinkSrc')]_vars
  /\ [](\A p \in Pumps : \A n1, n2 \in 1..Len(readLog[p]) :
          (n1 < n2 /\ PlaceOf(p, n1) # 0 /\ PlaceOf(p, n2) # 0)
            => PlaceOf(p, n1) < PlaceOf(p, n2))
  /\ [](\A k1, k2 \in 1..Len(sinkSrc) :
          (k1 < k2 /\ sinkSrc[k1][1] = sinkSrc[k2][1]) => sinkSrc[k1][2] < sinkSrc[k2][2])

\* two output lines of one source with a line of another pump between them
C13_Witness ==
  \E p, q \in Pumps : \E n1, n2 \in 1..MaxLines :
    /\ p # q /\ n1 < n2
    /\ Len(sinkSrc) = 3
    /\ sinkSrc[1] = <<p, n1>> /\ sinkSrc[3] = <<p, n2>>
    /\ sinkSrc[2][1] = q

\* one whole line: something, then the only newline
WholeLine(e) ==
  /\ Len(e) >= 2
  /\ e[Len(e)] = NL
  /\ \A j \in 1..(Len(e) - 1) : e[j] # NL

\* C14: every entry of the sink is one whole formatted line, all the
\* segments of its input line and the newline; a step adds at most one
\* entry, the buffer one pump has just composed, and touches the buffer of
\* no other pump.
C14_WholeLinesOnly ==
  /\ [](Len(sink) = Len(sinkSrc))
  /\ [](\A k \in 1..Len(sink) :
          /\ WholeLine(sink[k])
          /\ sink[k] = ClaimedColored(readLog[sinkSrc[k][1]][sinkSrc[k][2]], 1) \o <<NL>>)
  /\ [][Cardinality({p \in Pumps : buff'[p] # buff[p]}) <= 1]_vars
  /\ [][sink' # sink =>
          \E p \in Pumps :
            /\ sink' = Append(sink, buff'[p])
            /\ sinkSrc' = Append(sinkSrc, <<p, Len(readLog'[p])>>)
            /\ Len(readLog'[p]) = Len(readLog[p]) + 1
            /\ \A q \in Pumps \ {p} : buff'[q] = buff[q] /\ readLog'[q] = readLog[q]]_vars

\* a line of a file pump and a line of the stdin pump, one after the other
C14_Witness ==
  /\ Len(sink) = 2
  /\ sinkSrc[1][1] \in Files /\ sinkSrc[2][1] = Stdin
  /\ buff[sinkSrc[1][1]] = sink[1] /\ buff[Stdin] = sink[2]

\* ----------------------------------------------- cancellation's claims
\* the sink entries pump p wrote after ctxCancel was called
LateWrites(p) == {k \in (sinkAtCancel + 1)..Len(sinkSrc) : sinkSrc[k][1] = p}

\* C15: a file pump gets to scanner.Scan() only through a check that found
\* the context not cancelled, and reads a line only from there; a check
\* that finds it cancelled ends the pump with no line read and nothing
\* written; so after the cancellation each file pump has at most one entry
\* more in the sink.
C15_CheckedBeforeEachLine ==
  /\ [][\A i \in Files :
          /\ (filePc'[i] = "scan" /\ filePc[i] # "scan") => (filePc[i] = "check" /\ ~ctxDone)
          /\ readLog'[i] # readLog[i] => (filePc[i] = "scan" /\ filePc'[i] = "check")
          /\ (\E k \in 1..Len(sinkSrc') : k > Len(sinkSrc) /\ sinkSrc'[k][1] = i)
               => (filePc[i] = "scan" /\ filePc'[i] = "check")
          /\ (ctxDone /\ filePc[i] = "check" /\ filePc'[i] # "check")
               => /\ filePc'[i] = "done" /\ fileEnd'[i] = "cancel"
                  /\ readLog' = readLog /\ sink' = sink /\ buff' = buff]_vars
  /\ [](ctxDone => \A i \in Files : Cardinality(LateWrites(i)) <= 1)

\* a file pump that wrote one line after the cancellation and then ended on
\* its next check
C15_Witness ==
  \E i \in Files :
    /\ ctxDone /\ Cardinality(LateWrites(i)) = 1
    /\ filePc[i] = "done" /\ fileEnd[i] = "cancel"

\* C16: the stdin pump leaves its loop only by the step that reads
\* end-of-stream; the step that cancels the context changes nothing of the
\* pump, which can still read a line afterwards while the process lives; a
\* read that fails with another error formats the empty line it got and
\* leaves the pump in its loop.
C16_StdinEndsOnlyAtEOF ==
  /\ [][(stdinPc' = "done" /\ stdinPc # "done") => StdinEOF]_vars
  /\ [][ctxDone' # ctxDone =>
          /\ UNCHANGED stdinVars
          /\ readLog'[Stdin] = readLog[Stdin] /\ buff'[Stdin] = buff[Stdin]]_vars
  /\ []((ctxDone /\ Alive /\ stdinPc = "read" /\ LinesRead < MaxLines) => ENABLED StdinRead)
  /\ [][stdinErrs' # stdinErrs =>
          /\ stdinPc = "read" /\ stdinPc' = "read"
          /\ buff'[Stdin] = <<>> /\ sink' = sink]_vars
  /\ []((stdinErrs > 0 /\ Alive /\ stdinPc = "read" /\ LinesRead < MaxLines) => ENABLED StdinRead)

\* after the cancellation and a failed read the stdin pump has written a
\* line and is still in its loop
C16_Witness ==
  /\ ctxDone /\ stdinErrs > 0
  /\ LateWrites(Stdin) # {}
  /\ stdinPc = "read"

\* C17: ctxCancel is called at most once, and the context is cancelled
\* exactly when it has been called; the call is a step of main alone, taken
\* while it waits on stopChan in piped mode with a signal delivered; a
\* cancelled context stays cancelled.
C17_CancelledOnceByMain ==
  /\ [](cancels <= 1 /\ (ctxDone <=> cancels = 1) /\ (ctxDone => isPiped))
  /\ [][ctxDone => ctxDone']_vars
  /\ [][(ctxDone' # ctxDone \/ cancels' # cancels) =>
          /\ isPiped /\ mainPc = "trap" /\ sigPending
          /\ mainPc' = "wait" /\ cancels' = cancels + 1
          /\ UNCHANGED <<fileVars, stdinVars, sinkVars, wg, readLog, buff>>]_vars

\* main cancelled once and went on to close the sink: still cancelled
C17_Witness ==
  /\ ctxDone /\ cancels = 1 /\ isPiped
  /\ sinkClosed /\ mainPc = "stopped"
  /\ \E i \in Files : fileEnd[i] = "cancel"

\* ------------------------------------------------ the file pump's claims
\* C18: a file pump that ended by end-of-file, scanner error or cancellation
\* has closed its file, once; a pump whose open failed has no file and has
\* closed nothing; a file is open only while its pump is in its loop, and it
\* is closed by the step that ends the pump.
C18_HandleReleased ==
  /\ [](\A i \in Files :
          /\ closes[i] <= 1
          /\ (filePc[i] = "done" /\ fileEnd[i] \in {"eof", "scanerr", "cancel"})
               => (fileHandle[i] = "closed" /\ closes[i] = 1)
          /\ (filePc[i] = "done" /\ fileEnd[i] = "openfail")
               => (fileHandle[i] = "none" /\ closes[i] = 0)
          /\ filePc[i] = "done" => fileEnd[i] \in {"eof", "scanerr", "cancel", "openfail"}
          /\ fileHandle[i] = "open" <=> filePc[i] \in {"check", "scan"})
  /\ [][\A i \in Files :
          closes'[i] # closes[i] =>
            /\ fileHandle[i] = "open" /\ fileHandle'[i] = "closed"
            /\ filePc'[i] = "done" /\ closes'[i] = closes[i] + 1]_vars

\* one pump ended by cancellation with its file closed, another never had
\* a file
C18_Witness ==
  \E i, j \in Files :
    /\ filePc[i] = "done" /\ fileEnd[i] = "cancel" /\ fileHandle[i] = "closed" /\ closes[i] = 1
    /\ filePc[j] = "done" /\ fileEnd[j] = "openfail" /\ fileHandle[j] = "none" /\ closes[j] = 0

\* C19: the wait group counts the file pumps that were started and have not
\* returned, and is never negative; it goes up by one in the step that
\* starts a pump, once for each file of -files, and down by one in the step
\* that ends a pump, once for each pump and on each of its four ways out;
\* main leaves wg.Wait() only when it is zero.
C19_BarrierCountsRunningPumps ==
  /\ [](wg = Cardinality(Running) /\ wg >= 0)
  /\ [](\A i \in Files : dones[i] <= 1 /\ (dones[i] = 1 <=> filePc[i] = "done"))
  /\ [](Dispatched
          => \A i \in Files : filePc[i] = "idle" <=> i > nFiles)
  /\ [][\A i \in Files :
          /\ (filePc[i] = "idle" /\ filePc'[i] # "idle")
               => (filePc'[i] = "open" /\ wg' = wg + 1 /\ mainPc = "launch")
          /\ (filePc[i] # "done" /\ filePc'[i] = "done")
               => /\ wg' = wg - 1 /\ dones'[i] = dones[i] + 1
                  /\ fileEnd'[i] \in {"openfail", "eof", "scanerr", "cancel"}]_vars
  /\ [][wg' # wg => \E i \in Files : filePc'[i] # filePc[i] /\ filePc'[i] \in {"open", "done"}]_vars
  /\ [][(mainPc = "wait" /\ mainPc' # "wait") => (wg = 0 /\ Running = {} /\ mainPc' = "close")]_vars

\* both files were counted, their pumps ended on different ways out, and main
\* is past the barrier
C19_Witness ==
  /\ nFiles = 2 /\ wg = 0 /\ mainPc = "close"
  /\ \A i \in Files : dones[i] = 1
  /\ fileEnd[1] = "openfail" /\ fileEnd[2] = "eof"

\* --------------------------------------------------- the buffer's claim
\* the line pump p has just read
LastLine(p) == readLog'[p][Len(readLog'[p])]

\* C20: whatever the buffer of a pump held, after it has formatted a line
\* the buffer holds the output of that line alone (nothing when the line has
\* no value for any field), and a line with no value leaves the sink as it
\* was; every entry of the sink stands for a line that has a value.
C20_EachLineOnItsOwn ==
  /\ [][\A p \in Pumps :
          readLog'[p] # readLog[p] =>
            /\ buff'[p] = IF HasValue(LastLine(p))
                          THEN ClaimedColored(LastLine(p), 1) \o <<NL>>
                          ELSE <<>>
            /\ ~HasValue(LastLine(p))
                 => (sink' = sink /\ sinkSrc' = sinkSrc /\ failedWrites' = failedWrites)]_vars
  /\ [](\A k \in 1..Len(sinkSrc) : HasValue(readLog[sinkSrc[k][1]][sinkSrc[k][2]]))

\* a pump wrote the output of a line, then read a line without any of the
\* fields and wrote nothing, then wrote the output of a third line
C20_Witness ==
  \E p \in Pumps :
    /\ Len(readLog[p]) = 3
    /\ HasValue(readLog[p][1]) /\ ~HasValue(readLog[p][2]) /\ HasValue(readLog[p][3])
    /\ sinkSrc = <<<<p, 1>>, <<p, 3>>>>
    /\ sink[2] = sink[1] /\ buff[p] = sink[2]

====
